---- MODULE Spec2Model ----
(***************************************************************************)
(* Model of the Coding-Time-Tracker synchronisation core:                  *)
(* FirebaseManager (coding-time-tracker/src/firebase.ts) with its offline  *)
(* queue, read-then-merge write path, drain, initialize/configure/dispose. *)
(*                                                                         *)
(* JavaScript runs every piece of code between two awaits to completion.   *)
(* The variable running names the flow that holds the thread; a flow gives *)
(* it up at each await and any flow whose awaited promise has settled may  *)
(* take it next.                                                           *)
(***************************************************************************)
EXTENDS Integers, Sequences, FiniteSets, TLC

VARIABLES
    initialized,   \* FirebaseManager.initialized
    db,            \* FirebaseManager.db # null
    apps,          \* number of admin apps (getApps().length)
    config,        \* credentials present in the secrets store
    offlineQueue,  \* FirebaseManager.offlineQueue
    store,         \* remote documents users/{userId}/days/{date}
    running,       \* flow that holds the JavaScript thread, or NoFlow
    pc,            \* per flow: position in the code
    op,            \* per flow: public method the flow was started with
    wuser,         \* per flow: writeDayData argument userId
    wdata,         \* per flow: writeDayData argument data
    wexisting,     \* per flow: writeDayData local `existing` (snapshot read)
    werr,          \* per flow: error caught by writeDayData, or NoError
    ret,           \* per flow: value the last writeDayData call resolved to
    batch,         \* per flow: drainOfflineQueue local `batch`
    idx,           \* per flow: position of the for-of loop in batch
    dlog,          \* per flow: history of the drain loop, one entry per item
    dstore,        \* per flow: the store as it was when the drain took its batch
    submitted,     \* history: number of times each (userId, delta) was handed in
    applied,       \* history: number of successful writes of each (userId, delta)
    dropped,       \* history: number of calls of each (userId, delta) that failed unqueued
    mE, mD1, mD2, mOut,  \* inputs and result of the merge engine taken alone
    users,         \* platform: User collection, userId -> registered token or NoToken
    tracking,      \* platform: Tracking collection, (userId, date) -> document
    hpc,           \* per request handler: position in POST
    htoken,        \* per request handler: POST local `token`
    hbody,         \* per request handler: the validated body fields
    hexisting,     \* per request handler: mergeTrackingData local `existing`
    hbound,        \* per request handler: the token its userId was registered with when the request arrived
    posts,         \* history: number of requests that passed validation
    resp,          \* history: the last response, with the request it answers
    writers        \* history: tokens of the requests that wrote each tracking document

fvars == <<pc, op, wuser, wdata, wexisting, werr, ret, batch, idx, dlog, dstore>>
gvars == <<initialized, db, apps, config, offlineQueue, store, running>>
hvars == <<submitted, applied, dropped>>
mvars == <<mE, mD1, mD2, mOut>>
pvars == <<users, tracking, hpc, htoken, hbody, hexisting, hbound, posts, resp, writers>>
vars == <<gvars, fvars, hvars, mvars, pvars>>

----------------------------------------------------------------------------
(* Bounds *)

MaxSubmits == 3          \* writeDayData calls of one serialized run
MaxOverlapSubmits == 2   \* writeDayData calls of one run with overlapping flows
MaxSecs == 1             \* largest seconds value of the merge engine's inputs taken alone
MaxPosts == 2            \* POST requests of one run that pass the validation

----------------------------------------------------------------------------
(* Data *)

Flows == {"f1", "f2"}
NoFlow == "none"
Users == {"u1"}
Dates == {"2024-01-01", "2024-01-02"}
Langs == {"go", "rust"}

Absent == [exists |-> FALSE]
NoError == <<>>
NoData == [date |-> "", totalSeconds |-> 0, languages |-> <<>>]

\* A languages object { go: 120 }: a function whose domain is the key set.
Lang1(l, s) == [k \in {l} |-> s]
Lang2(s1, s2) == [k \in {"go", "rust"} |-> IF k = "go" THEN s1 ELSE s2]

\* IDayData values the callers hand in.
DeltaA == [date |-> "2024-01-01", totalSeconds |-> 120, languages |-> Lang1("go", 120)]
DeltaB == [date |-> "2024-01-01", totalSeconds |-> 30, languages |-> Lang2(10, 20)]
DeltaC == [date |-> "2024-01-02", totalSeconds |-> 20, languages |-> Lang1("rust", 20)]
Deltas == {DeltaA, DeltaB, DeltaC}
OverlapDeltas == {DeltaA, DeltaB}

Keys == Users \X Dates
Subs == Users \X Deltas

\* IQueuedUpdate without its timestamp (never read by the code).
QueuedUpdate(userId, data) == [userId |-> userId, date |-> data.date, data |-> data]

----------------------------------------------------------------------------
(* Error descriptions, as sequences of characters *)

MsgTimedOut == <<"E","T","I","M","E","D","O","U","T">>
MsgHangUp == <<"s","o","c","k","e","t"," ","h","a","n","g"," ","u","p">>
MsgSocketClosed == <<"S","o","c","k","e","t"," ","c","l","o","s","e","d">>
MsgDenied == <<"P","E","R","M","I","S","S","I","O","N","_","D","E","N","I","E","D">>
MsgNetwork == <<"N","e","t","w","o","r","k"," ","d","o","w","n">>
Messages == {MsgTimedOut, MsgHangUp, MsgSocketClosed, MsgDenied, MsgNetwork}
OverlapMessages == {MsgTimedOut, MsgDenied}

Upper == <<"A","B","C","D","E","F","G","H","I","J","K","L","M",
           "N","O","P","Q","R","S","T","U","V","W","X","Y","Z">>
Lower == <<"a","b","c","d","e","f","g","h","i","j","k","l","m",
           "n","o","p","q","r","s","t","u","v","w","x","y","z">>

toLowerCase(msg) ==
    [i \in 1..Len(msg) |->
        IF \E k \in 1..26 : Upper[k] = msg[i]
        THEN Lower[CHOOSE k \in 1..26 : Upper[k] = msg[i]]
        ELSE msg[i]]

includes(msg, pat) ==
    \E i \in 1..(Len(msg) - Len(pat) + 1) : SubSeq(msg, i, i + Len(pat) - 1) = pat

looksLikeNetworkError(error) ==
    LET msg == toLowerCase(error) IN
    \/ includes(msg, <<"n","e","t","w","o","r","k">>)
    \/ includes(msg, <<"e","n","o","t","f","o","u","n","d">>)
    \/ includes(msg, <<"e","c","o","n","n","r","e","f","u","s","e","d">>)
    \/ includes(msg, <<"e","t","i","m","e","d","o","u","t">>)
    \/ includes(msg, <<"t","i","m","e","o","u","t">>)
    \/ includes(msg, <<"s","o","c","k","e","t"," ","h","a","n","g"," ","u","p">>)

----------------------------------------------------------------------------
(* Merge engine *)

\* Variant: languages[lang] = seconds (the incoming value replaces the stored one).
mergeDayDataOverwritesLanguage(existing, incoming) ==
    LET languages ==
            [l \in (DOMAIN existing.languages) \cup (DOMAIN incoming.languages) |->
                IF l \in DOMAIN incoming.languages
                THEN incoming.languages[l]
                ELSE existing.languages[l]]
    IN [date |-> existing.date,
        totalSeconds |-> existing.totalSeconds + incoming.totalSeconds,
        languages |-> languages]

\* Variant: the merged languages are built from the incoming keys only, the
\* spread of existing.languages is missing.
mergeDayDataDropsLanguages(existing, incoming) ==
    [date |-> existing.date,
     totalSeconds |-> existing.totalSeconds + incoming.totalSeconds,
     languages |->
        [l \in DOMAIN incoming.languages |->
            (IF l \in DOMAIN existing.languages THEN existing.languages[l] ELSE 0)
            + incoming.languages[l]]]

\* Variant: totalSeconds: incoming.totalSeconds (the total is not accumulated).
mergeDayDataOverwritesTotal(existing, incoming) ==
    LET languages ==
            [l \in (DOMAIN existing.languages) \cup (DOMAIN incoming.languages) |->
                IF l \in DOMAIN incoming.languages
                THEN (IF l \in DOMAIN existing.languages THEN existing.languages[l] ELSE 0)
                     + incoming.languages[l]
                ELSE existing.languages[l]]
    IN [date |-> existing.date,
        totalSeconds |-> incoming.totalSeconds,
        languages |-> languages]

mergeDayData(existing, incoming) ==
    LET languages ==
            [l \in (DOMAIN existing.languages) \cup (DOMAIN incoming.languages) |->
                IF l \in DOMAIN incoming.languages
                THEN (IF l \in DOMAIN existing.languages THEN existing.languages[l] ELSE 0)
                     + incoming.languages[l]
                ELSE existing.languages[l]]
    IN [date |-> existing.date,
        totalSeconds |-> existing.totalSeconds + incoming.totalSeconds,
        languages |-> languages]

\* A stored document: the IDayData with the snapshot's `exists` flag.
Doc(data) == [exists |-> TRUE, date |-> data.date,
              totalSeconds |-> data.totalSeconds, languages |-> data.languages]
DocData(doc) == [date |-> doc.date, totalSeconds |-> doc.totalSeconds,
                 languages |-> doc.languages]

enqueue(q, userId, data) == Append(q, QueuedUpdate(userId, data))

----------------------------------------------------------------------------
(* Platform: the values POST /api/track works on *)

Handlers == {"h1", "h2"}
NoResp == [status |-> 0]

\* A string is a sequence of characters.
Rep(c, n) == [i \in 1..n |-> c]

\* if (!token || token.length < 16)
MinTokenLength == 16
TokenA == Rep("a", MinTokenLength)
TokenB == Rep("b", MinTokenLength)
TokenShort == Rep("c", MinTokenLength - 1)
Tokens == {TokenA, TokenB, TokenShort}
NoToken == <<>>

\* The Authorization header; headers.get gives null when it is missing.
BearerPrefix == <<"B", "e", "a", "r", "e", "r", " ">>
NoHeader == <<>>
HeaderBearer(t) == BearerPrefix \o t
HeaderBasic == <<"B", "a", "s", "i", "c", " ">> \o TokenA
Headers == {NoHeader, HeaderBasic} \cup {HeaderBearer(t) : t \in Tokens}

startsWith(s, prefix) ==
    Len(s) >= Len(prefix) /\ SubSeq(s, 1, Len(prefix)) = prefix

MinOf(S) == CHOOSE x \in S : \A y \in S : x <= y

\* authHeader.split(" ")[1]: the text between the first space and the next
\* space or the end; undefined (here the empty string) without a space.
splitSecond(s) ==
    LET spaces == {i \in 1..Len(s) : s[i] = " "}
    IN IF spaces = {} THEN <<>>
       ELSE LET first == MinOf(spaces)
                later == {i \in spaces : i > first}
                last == IF later = {} THEN Len(s) ELSE MinOf(later) - 1
            IN SubSeq(s, first + 1, last)

\* JSON values of the request body, with their typeof.
Undefined == [type |-> "undefined"]
Str(s) == [type |-> "string", value |-> s]
Num(n) == [type |-> "number", value |-> n]
Obj(fields) == [type |-> "object", value |-> fields]
typeof(v) == v.type
Falsy(v) ==
    \/ typeof(v) = "undefined"
    \/ typeof(v) = "string" /\ v.value = <<>>
    \/ typeof(v) = "number" /\ v.value = 0

UserA == <<"u", "1">>
UserB == <<"u", "2">>
PUsers == {UserA, UserB}
DateGood == <<"2", "0", "2", "4", "-", "0", "1", "-", "0", "1">>
DateShort == <<"2", "0", "2", "4", "-", "1", "-", "1">>
PKeys == PUsers \X {DateGood}

BodyUserIds == {Str(UserA), Str(UserB), Undefined}
BodyDates == {Str(DateGood), Str(DateShort), Undefined}
BodyTotals == {Num(60), Num(0 - 5), Str(<<"6", "0">>)}
BodyLanguages ==
    {Obj(Lang1("go", Num(60))), Obj(Lang1("go", Num(0 - 1))),
     Obj(Lang1("go", Str(<<"6", "0">>))), Undefined}
BadJson == [type |-> "badjson"]
AllBodies ==
    {[userId |-> u, date |-> d, totalSeconds |-> t, languages |-> l] :
        u \in BodyUserIds, d \in BodyDates, t \in BodyTotals, l \in BodyLanguages}
NoBody == [type |-> "none"]

Digits == {"0", "1", "2", "3", "4", "5", "6", "7", "8", "9"}

\* /^\d{4}-\d{2}-\d{2}$/.test(date)
matchesDate(v) ==
    /\ typeof(v) = "string"
    /\ Len(v.value) = 10
    /\ \A i \in 1..10 :
          IF i \in {5, 8} THEN v.value[i] = "-" ELSE v.value[i] \in Digits

\* Variant: the loop over the languages entries (lines 96-105) is missing.
validateWithoutSeconds(body) ==
    IF Falsy(body.userId) \/ typeof(body.userId) # "string" THEN "userId"
    ELSE IF Falsy(body.date) \/ ~matchesDate(body.date) THEN "date"
    ELSE IF typeof(body.totalSeconds) # "number" \/ body.totalSeconds.value < 0
         THEN "totalSeconds"
    ELSE IF Falsy(body.languages) \/ typeof(body.languages) # "object" THEN "languages"
    ELSE "ok"

\* The checks of lines 59-105, in their order: the error of the first that
\* fails, or "ok".
validate(body) ==
    IF Falsy(body.userId) \/ typeof(body.userId) # "string" THEN "userId"
    ELSE IF Falsy(body.date) \/ ~matchesDate(body.date) THEN "date"
    ELSE IF typeof(body.totalSeconds) # "number" \/ body.totalSeconds.value < 0
         THEN "totalSeconds"
    ELSE IF Falsy(body.languages) \/ typeof(body.languages) # "object" THEN "languages"
    ELSE IF \E l \in DOMAIN body.languages.value :
               \/ typeof(body.languages.value[l]) # "number"
               \/ body.languages.value[l].value < 0
         THEN "seconds"
    ELSE "ok"

\* The request bodies of the runs: unparsable JSON, the valid bodies, and
\* the bodies with one offending field.
OffendingFields(body) ==
    {fld \in {"userId", "date", "totalSeconds", "languages"} :
        validate([userId |-> IF fld = "userId" THEN body.userId ELSE Str(UserA),
                  date |-> IF fld = "date" THEN body.date ELSE Str(DateGood),
                  totalSeconds |-> IF fld = "totalSeconds" THEN body.totalSeconds ELSE Num(60),
                  languages |-> IF fld = "languages" THEN body.languages
                                ELSE Obj(Lang1("go", Num(60)))]) # "ok"}
Bodies == {BadJson} \cup {b \in AllBodies : Cardinality(OffendingFields(b)) <= 1}

\* The plain numbers of a validated languages object.
Seconds(languages) == [l \in DOMAIN languages.value |-> languages.value[l].value]

MaxOf(a, b) == IF a >= b THEN a ELSE b

\* mergeTrackingData with a document found: add the seconds to the stored ones.
mergeTrackingData(existing, totalSeconds, languages) ==
    [exists |-> TRUE,
     totalSeconds |-> existing.totalSeconds + totalSeconds,
     languages |->
        [l \in (DOMAIN existing.languages) \cup (DOMAIN languages) |->
            IF l \in DOMAIN languages
            THEN MaxOf(0, (IF l \in DOMAIN existing.languages
                           THEN existing.languages[l] ELSE 0) + languages[l])
            ELSE existing.languages[l]]]

\* mergeTrackingData without one: this.create({...}).
createTracking(totalSeconds, languages) ==
    [exists |-> TRUE, totalSeconds |-> totalSeconds, languages |-> languages]

PlatformInit ==
    /\ users = [u \in PUsers |-> NoToken]
    /\ tracking = [k \in PKeys |-> Absent]
    /\ hpc = [h \in Handlers |-> "idle"]
    /\ htoken = [h \in Handlers |-> NoToken]
    /\ hbody = [h \in Handlers |-> NoBody]
    /\ hexisting = [h \in Handlers |-> Absent]
    /\ hbound = [h \in Handlers |-> NoToken]
    /\ posts = 0
    /\ resp = NoResp
    /\ writers = [k \in PKeys |-> {}]

----------------------------------------------------------------------------
(* Initial state: a freshly constructed FirebaseManager, an empty store *)

ManagerInit ==
    /\ initialized = FALSE
    /\ db = FALSE
    /\ apps = 0
    /\ config \in BOOLEAN
    /\ offlineQueue = <<>>
    /\ store = [k \in Keys |-> Absent]
    /\ running = NoFlow
    /\ pc = [f \in Flows |-> "idle"]
    /\ op = [f \in Flows |-> "none"]
    /\ wuser = [f \in Flows |-> ""]
    /\ wdata = [f \in Flows |-> NoData]
    /\ wexisting = [f \in Flows |-> Absent]
    /\ werr = [f \in Flows |-> NoError]
    /\ ret = [f \in Flows |-> FALSE]
    /\ batch = [f \in Flows |-> <<>>]
    /\ idx = [f \in Flows |-> 0]
    /\ dlog = [f \in Flows |-> <<>>]
    /\ dstore = [f \in Flows |-> [k \in Keys |-> Absent]]
    /\ submitted = [s \in Subs |-> 0]
    /\ applied = [s \in Subs |-> 0]
    /\ dropped = [s \in Subs |-> 0]

Init ==
    /\ ManagerInit
    /\ mE = Absent /\ mD1 = NoData /\ mD2 = NoData /\ mOut = <<>>
    /\ PlatformInit

RECURSIVE SumOver(_, _)
SumOver(fn, S) ==
    IF S = {} THEN 0
    ELSE LET x == CHOOSE y \in S : TRUE IN fn[x] + SumOver(fn, S \ {x})

AllIdle == \A f \in Flows : pc[f] = "idle"

\* The frame of a flow that is not inside writeDayData / drainOfflineQueue.
ClearWrite(f) ==
    /\ wuser' = [wuser EXCEPT ![f] = ""]
    /\ wdata' = [wdata EXCEPT ![f] = NoData]
    /\ wexisting' = [wexisting EXCEPT ![f] = Absent]
    /\ werr' = [werr EXCEPT ![f] = NoError]
    /\ ret' = [ret EXCEPT ![f] = FALSE]

ClearDrain(f) ==
    /\ batch' = [batch EXCEPT ![f] = <<>>]
    /\ idx' = [idx EXCEPT ![f] = 0]
    /\ dlog' = [dlog EXCEPT ![f] = <<>>]
    /\ dstore' = [dstore EXCEPT ![f] = [k \in Keys |-> Absent]]

----------------------------------------------------------------------------
(* writeDayData *)

\* A caller (the tracker's flush, the testWrite command) calls writeDayData.
Submit(f, userId, data, max) ==
    /\ running = NoFlow
    /\ pc[f] = "idle"
    /\ SumOver(submitted, Subs) < max
    /\ op' = [op EXCEPT ![f] = "submit"]
    /\ pc' = [pc EXCEPT ![f] = "w_enter"]
    /\ wuser' = [wuser EXCEPT ![f] = userId]
    /\ wdata' = [wdata EXCEPT ![f] = data]
    /\ running' = f
    /\ submitted' = [submitted EXCEPT ![<<userId, data>>] = @ + 1]
    /\ UNCHANGED <<initialized, db, apps, config, offlineQueue, store>>
    /\ UNCHANGED <<wexisting, werr, ret, batch, idx, dlog, dstore, applied, dropped>>
    /\ UNCHANGED <<mvars, pvars>>

\* Variant: the not-ready path returns false without enqueueing.
WriteNotReadyDrops(f) ==
    /\ running = f
    /\ pc[f] = "w_enter"
    /\ ~initialized \/ ~db
    /\ ret' = [ret EXCEPT ![f] = FALSE]
    /\ pc' = [pc EXCEPT ![f] = "w_ret"]
    /\ running' = NoFlow
    /\ UNCHANGED <<initialized, db, apps, config, offlineQueue, store>>
    /\ UNCHANGED <<op, wuser, wdata, wexisting, werr, batch, idx, dlog, dstore>>
    /\ UNCHANGED <<hvars, mvars, pvars>>

\* if (!this.initialized || !this.db) { this.enqueue(userId, data); return false; }
WriteNotReady(f) ==
    /\ running = f
    /\ pc[f] = "w_enter"
    /\ ~initialized \/ ~db
    /\ offlineQueue' = enqueue(offlineQueue, wuser[f], wdata[f])
    /\ ret' = [ret EXCEPT ![f] = FALSE]
    /\ pc' = [pc EXCEPT ![f] = "w_ret"]
    /\ running' = NoFlow
    /\ UNCHANGED <<initialized, db, apps, config, store>>
    /\ UNCHANGED <<op, wuser, wdata, wexisting, werr, batch, idx, dlog, dstore>>
    /\ UNCHANGED <<hvars, mvars, pvars>>

\* const existing = await docRef.get();   (the read is issued)
WriteIssueGet(f) ==
    /\ running = f
    /\ pc[f] = "w_enter"
    /\ initialized /\ db
    /\ pc' = [pc EXCEPT ![f] = "w_get"]
    /\ running' = NoFlow
    /\ UNCHANGED <<initialized, db, apps, config, offlineQueue, store>>
    /\ UNCHANGED <<op, wuser, wdata, wexisting, werr, ret, batch, idx, dlog, dstore>>
    /\ UNCHANGED <<hvars, mvars, pvars>>

\* The read resolves; the merged (or new) record is computed and its set issued.
WriteGetOk(f) ==
    /\ running = NoFlow
    /\ pc[f] = "w_get"
    /\ apps > 0
    /\ wexisting' = [wexisting EXCEPT ![f] = store[<<wuser[f], wdata[f].date>>]]
    /\ pc' = [pc EXCEPT ![f] = "w_set"]
    /\ UNCHANGED gvars
    /\ UNCHANGED <<op, wuser, wdata, werr, ret, batch, idx, dlog, dstore>>
    /\ UNCHANGED <<hvars, mvars, pvars>>

\* Variant: a new document is created without its languages.
WriteRecordWithoutLanguages(existing, data) ==
    IF existing.exists
    THEN Doc(mergeDayData(DocData(existing), data))
    ELSE Doc([data EXCEPT !.languages = <<>>])

\* The record writeDayData passes to docRef.set.
WriteRecord(existing, data) ==
    IF existing.exists
    THEN Doc(mergeDayData(DocData(existing), data))
    ELSE Doc(data)

\* Variant: the set merges into the record the store holds when it resolves
\* (a transactional update), not into the record the call read earlier.
WriteSetOkTransactional(f) ==
    /\ running = NoFlow
    /\ pc[f] = "w_set"
    /\ apps > 0
    /\ store' = [store EXCEPT ![<<wuser[f], wdata[f].date>>] =
                    WriteRecord(store[<<wuser[f], wdata[f].date>>], wdata[f])]
    /\ ret' = [ret EXCEPT ![f] = TRUE]
    /\ pc' = [pc EXCEPT ![f] = "w_ret"]
    /\ applied' = [applied EXCEPT ![<<wuser[f], wdata[f]>>] = @ + 1]
    /\ UNCHANGED <<initialized, db, apps, config, offlineQueue, running>>
    /\ UNCHANGED <<op, wuser, wdata, wexisting, werr, batch, idx, dlog, dstore>>
    /\ UNCHANGED <<submitted, dropped, mvars, pvars>>

\* The set resolves: the document is replaced; return true.
WriteSetOk(f) ==
    /\ running = NoFlow
    /\ pc[f] = "w_set"
    /\ apps > 0
    /\ store' = [store EXCEPT ![<<wuser[f], wdata[f].date>>] =
                    WriteRecord(wexisting[f], wdata[f])]
    /\ ret' = [ret EXCEPT ![f] = TRUE]
    /\ pc' = [pc EXCEPT ![f] = "w_ret"]
    /\ applied' = [applied EXCEPT ![<<wuser[f], wdata[f]>>] = @ + 1]
    /\ UNCHANGED <<initialized, db, apps, config, offlineQueue, running>>
    /\ UNCHANGED <<op, wuser, wdata, wexisting, werr, batch, idx, dlog, dstore>>
    /\ UNCHANGED <<submitted, dropped, mvars, pvars>>

\* Variant: the catch block enqueues the record it tried to write, not the delta.
WriteCatchQueuesMerged(f, error) ==
    /\ werr' = [werr EXCEPT ![f] = error]
    /\ offlineQueue' = IF looksLikeNetworkError(error)
                       THEN enqueue(offlineQueue, wuser[f],
                                    DocData(WriteRecord(wexisting[f], wdata[f])))
                       ELSE offlineQueue
    /\ ret' = [ret EXCEPT ![f] = FALSE]
    /\ pc' = [pc EXCEPT ![f] = "w_ret"]
    /\ dropped' = IF looksLikeNetworkError(error)
                  THEN dropped
                  ELSE [dropped EXCEPT ![<<wuser[f], wdata[f]>>] = @ + 1]
    /\ UNCHANGED <<initialized, db, apps, config, store, running>>
    /\ UNCHANGED <<op, wuser, wdata, wexisting, batch, idx, dlog, dstore>>
    /\ UNCHANGED <<submitted, applied, mvars, pvars>>

\* Variant: the catch block returns false without queueing anything.
WriteCatchNeverQueues(f, error) ==
    /\ werr' = [werr EXCEPT ![f] = error]
    /\ ret' = [ret EXCEPT ![f] = FALSE]
    /\ pc' = [pc EXCEPT ![f] = "w_ret"]
    /\ dropped' = [dropped EXCEPT ![<<wuser[f], wdata[f]>>] = @ + 1]
    /\ UNCHANGED <<initialized, db, apps, config, offlineQueue, store, running>>
    /\ UNCHANGED <<op, wuser, wdata, wexisting, batch, idx, dlog, dstore>>
    /\ UNCHANGED <<submitted, applied, mvars, pvars>>

\* Variant: the catch block reports a queued update as written.
WriteCatchReportsQueued(f, error) ==
    /\ werr' = [werr EXCEPT ![f] = error]
    /\ offlineQueue' = IF looksLikeNetworkError(error)
                       THEN enqueue(offlineQueue, wuser[f], wdata[f])
                       ELSE offlineQueue
    /\ ret' = [ret EXCEPT ![f] = looksLikeNetworkError(error)]
    /\ pc' = [pc EXCEPT ![f] = "w_ret"]
    /\ dropped' = IF looksLikeNetworkError(error)
                  THEN dropped
                  ELSE [dropped EXCEPT ![<<wuser[f], wdata[f]>>] = @ + 1]
    /\ UNCHANGED <<initialized, db, apps, config, store, running>>
    /\ UNCHANGED <<op, wuser, wdata, wexisting, batch, idx, dlog, dstore>>
    /\ UNCHANGED <<submitted, applied, mvars, pvars>>

\* Variant: the catch block enqueues whatever the error is.
WriteCatchQueuesAlways(f, error) ==
    /\ werr' = [werr EXCEPT ![f] = error]
    /\ offlineQueue' = enqueue(offlineQueue, wuser[f], wdata[f])
    /\ ret' = [ret EXCEPT ![f] = FALSE]
    /\ pc' = [pc EXCEPT ![f] = "w_ret"]
    /\ dropped' = IF looksLikeNetworkError(error)
                  THEN dropped
                  ELSE [dropped EXCEPT ![<<wuser[f], wdata[f]>>] = @ + 1]
    /\ UNCHANGED <<initialized, db, apps, config, store, running>>
    /\ UNCHANGED <<op, wuser, wdata, wexisting, batch, idx, dlog, dstore>>
    /\ UNCHANGED <<submitted, applied, mvars, pvars>>

\* catch (error) { if (this.looksLikeNetworkError(error)) this.enqueue(userId, data);
\*                 return false; }
WriteCatch(f, error) ==
    /\ werr' = [werr EXCEPT ![f] = error]
    /\ offlineQueue' = IF looksLikeNetworkError(error)
                       THEN enqueue(offlineQueue, wuser[f], wdata[f])
                       ELSE offlineQueue
    /\ ret' = [ret EXCEPT ![f] = FALSE]
    /\ pc' = [pc EXCEPT ![f] = "w_ret"]
    /\ dropped' = IF looksLikeNetworkError(error)
                  THEN dropped
                  ELSE [dropped EXCEPT ![<<wuser[f], wdata[f]>>] = @ + 1]
    /\ UNCHANGED <<initialized, db, apps, config, store, running>>
    /\ UNCHANGED <<op, wuser, wdata, wexisting, batch, idx, dlog, dstore>>
    /\ UNCHANGED <<submitted, applied, mvars, pvars>>

\* docRef.get() rejects.
WriteGetFail(f, error) ==
    /\ running = NoFlow
    /\ pc[f] = "w_get"
    /\ WriteCatch(f, error)

\* docRef.set() rejects.
WriteSetFail(f, error) ==
    /\ running = NoFlow
    /\ pc[f] = "w_set"
    /\ WriteCatch(f, error)

\* The caller's await of writeDayData resumes.
SubmitReturn(f) ==
    /\ running = NoFlow
    /\ pc[f] = "w_ret"
    /\ op[f] = "submit"
    /\ pc' = [pc EXCEPT ![f] = "idle"]
    /\ op' = [op EXCEPT ![f] = "none"]
    /\ ClearWrite(f)
    /\ UNCHANGED gvars
    /\ UNCHANGED <<batch, idx, dlog, dstore>>
    /\ UNCHANGED <<hvars, mvars, pvars>>

----------------------------------------------------------------------------
(* drainOfflineQueue *)

\* if (this.offlineQueue.length === 0) return;
DrainEmpty(f) ==
    /\ running = f
    /\ pc[f] = "d_enter"
    /\ Len(offlineQueue) = 0
    /\ pc' = [pc EXCEPT ![f] = "d_ret"]
    /\ running' = NoFlow
    /\ UNCHANGED <<initialized, db, apps, config, offlineQueue, store>>
    /\ UNCHANGED <<op, wuser, wdata, wexisting, werr, ret, batch, idx, dlog, dstore>>
    /\ UNCHANGED <<hvars, mvars, pvars>>

\* Variant: the batch is taken but the queue is not cleared.
DrainTakeKeepsQueue(f) ==
    /\ running = f
    /\ pc[f] = "d_enter"
    /\ Len(offlineQueue) > 0
    /\ batch' = [batch EXCEPT ![f] = offlineQueue]
    /\ idx' = [idx EXCEPT ![f] = 1]
    /\ dlog' = [dlog EXCEPT ![f] = <<>>]
    /\ dstore' = [dstore EXCEPT ![f] = store]
    /\ wuser' = [wuser EXCEPT ![f] = offlineQueue[1].userId]
    /\ wdata' = [wdata EXCEPT ![f] = offlineQueue[1].data]
    /\ pc' = [pc EXCEPT ![f] = "w_enter"]
    /\ UNCHANGED <<initialized, db, apps, config, offlineQueue, store, running>>
    /\ UNCHANGED <<op, wexisting, werr, ret>>
    /\ UNCHANGED <<hvars, mvars, pvars>>

\* const batch = this.offlineQueue; this.offlineQueue = [];
\* then the first iteration calls writeDayData(item.userId, item.data).
DrainTake(f) ==
    /\ running = f
    /\ pc[f] = "d_enter"
    /\ Len(offlineQueue) > 0
    /\ batch' = [batch EXCEPT ![f] = offlineQueue]
    /\ offlineQueue' = <<>>
    /\ idx' = [idx EXCEPT ![f] = 1]
    /\ dlog' = [dlog EXCEPT ![f] = <<>>]
    /\ dstore' = [dstore EXCEPT ![f] = store]
    /\ wuser' = [wuser EXCEPT ![f] = offlineQueue[1].userId]
    /\ wdata' = [wdata EXCEPT ![f] = offlineQueue[1].data]
    /\ pc' = [pc EXCEPT ![f] = "w_enter"]
    /\ UNCHANGED <<initialized, db, apps, config, store, running>>
    /\ UNCHANGED <<op, wexisting, werr, ret>>
    /\ UNCHANGED <<hvars, mvars, pvars>>

\* What became of the item the loop has just awaited.
ItemResult(success, error) ==
    IF success THEN "success"
    ELSE IF error = NoError THEN "notready"
    ELSE IF looksLikeNetworkError(error) THEN "transient"
    ELSE "permanent"

\* Variant: the loop does not await the write it has started before it goes
\* on to the next item.
DrainNextNoAwait(f) ==
    /\ running = NoFlow
    /\ pc[f] \in {"w_get", "w_set", "w_ret"}
    /\ op[f] # "submit"
    /\ idx[f] < Len(batch[f])
    /\ dlog' = [dlog EXCEPT ![f] = Append(@, ItemResult(ret[f], werr[f]))]
    /\ idx' = [idx EXCEPT ![f] = @ + 1]
    /\ wuser' = [wuser EXCEPT ![f] = batch[f][idx[f] + 1].userId]
    /\ wdata' = [wdata EXCEPT ![f] = batch[f][idx[f] + 1].data]
    /\ wexisting' = [wexisting EXCEPT ![f] = Absent]
    /\ werr' = [werr EXCEPT ![f] = NoError]
    /\ ret' = [ret EXCEPT ![f] = FALSE]
    /\ pc' = [pc EXCEPT ![f] = "w_enter"]
    /\ running' = f
    /\ UNCHANGED <<initialized, db, apps, config, offlineQueue, store>>
    /\ UNCHANGED <<op, batch, dstore>>
    /\ UNCHANGED <<hvars, mvars, pvars>>

\* const success = await this.writeDayData(...) resumes; the loop goes on
\* to the next item of the batch.
DrainNext(f) ==
    /\ running = NoFlow
    /\ pc[f] = "w_ret"
    /\ op[f] # "submit"
    /\ idx[f] < Len(batch[f])
    /\ dlog' = [dlog EXCEPT ![f] = Append(@, ItemResult(ret[f], werr[f]))]
    /\ idx' = [idx EXCEPT ![f] = @ + 1]
    /\ wuser' = [wuser EXCEPT ![f] = batch[f][idx[f] + 1].userId]
    /\ wdata' = [wdata EXCEPT ![f] = batch[f][idx[f] + 1].data]
    /\ wexisting' = [wexisting EXCEPT ![f] = Absent]
    /\ werr' = [werr EXCEPT ![f] = NoError]
    /\ ret' = [ret EXCEPT ![f] = FALSE]
    /\ pc' = [pc EXCEPT ![f] = "w_enter"]
    /\ running' = f
    /\ UNCHANGED <<initialized, db, apps, config, offlineQueue, store>>
    /\ UNCHANGED <<op, batch, dstore>>
    /\ UNCHANGED <<hvars, mvars, pvars>>

\* Variant: if (!success) the loop pushes the item back itself.
DrainDoneRequeues(f) ==
    /\ running = NoFlow
    /\ pc[f] = "w_ret"
    /\ op[f] # "submit"
    /\ idx[f] = Len(batch[f])
    /\ dlog' = [dlog EXCEPT ![f] = Append(@, ItemResult(ret[f], werr[f]))]
    /\ pc' = [pc EXCEPT ![f] = "d_ret"]
    /\ offlineQueue' = IF ret[f] THEN offlineQueue
                       ELSE Append(offlineQueue, batch[f][idx[f]])
    /\ ClearWrite(f)
    /\ UNCHANGED <<initialized, db, apps, config, store, running>>
    /\ UNCHANGED <<op, batch, idx, dstore>>
    /\ UNCHANGED <<hvars, mvars, pvars>>

\* The await of the last item resumes; the loop ends and the drain returns.
DrainDone(f) ==
    /\ running = NoFlow
    /\ pc[f] = "w_ret"
    /\ op[f] # "submit"
    /\ idx[f] = Len(batch[f])
    /\ dlog' = [dlog EXCEPT ![f] = Append(@, ItemResult(ret[f], werr[f]))]
    /\ pc' = [pc EXCEPT ![f] = "d_ret"]
    /\ ClearWrite(f)
    /\ UNCHANGED gvars
    /\ UNCHANGED <<op, batch, idx, dstore>>
    /\ UNCHANGED <<hvars, mvars, pvars>>

----------------------------------------------------------------------------
(* initialize *)

\* if (this.initialized) return true;  const config = await this.getStoredConfig();
Initialize(f) ==
    /\ running = NoFlow
    /\ pc[f] = "idle"
    /\ IF initialized
       THEN UNCHANGED <<pc, op>>
       ELSE /\ pc' = [pc EXCEPT ![f] = "i_config"]
            /\ op' = [op EXCEPT ![f] = "initialize"]
    /\ UNCHANGED gvars
    /\ UNCHANGED <<wuser, wdata, wexisting, werr, ret, batch, idx, dlog, dstore>>
    /\ UNCHANGED <<hvars, mvars, pvars>>

\* getStoredConfig resolves: no config -> return false; an app exists ->
\* await deleteApp(apps[0]) (the app leaves the registry at once); else go on.
InitializeConfig(f) ==
    /\ running = NoFlow
    /\ pc[f] = "i_config"
    /\ IF ~config
       THEN /\ pc' = [pc EXCEPT ![f] = "idle"]
            /\ op' = [op EXCEPT ![f] = "none"]
            /\ UNCHANGED <<apps, running>>
       ELSE IF apps > 0
       THEN /\ apps' = 0
            /\ pc' = [pc EXCEPT ![f] = "i_delete"]
            /\ UNCHANGED <<op, running>>
       ELSE /\ pc' = [pc EXCEPT ![f] = "i_app"]
            /\ running' = f
            /\ UNCHANGED <<op, apps>>
    /\ UNCHANGED <<initialized, db, config, offlineQueue, store>>
    /\ UNCHANGED <<wuser, wdata, wexisting, werr, ret, batch, idx, dlog, dstore>>
    /\ UNCHANGED <<hvars, mvars, pvars>>

\* deleteApp resolves.
InitializeDeleted(f) ==
    /\ running = NoFlow
    /\ pc[f] = "i_delete"
    /\ pc' = [pc EXCEPT ![f] = "i_app"]
    /\ running' = f
    /\ UNCHANGED <<initialized, db, apps, config, offlineQueue, store>>
    /\ UNCHANGED <<op, wuser, wdata, wexisting, werr, ret, batch, idx, dlog, dstore>>
    /\ UNCHANGED <<hvars, mvars, pvars>>

\* Variant: initialize returns as soon as the connection is established and
\* leaves the queue alone.
InitializeAppNoDrain(f) ==
    /\ running = f
    /\ pc[f] = "i_app"
    /\ apps = 0
    /\ apps' = 1
    /\ db' = TRUE
    /\ initialized' = TRUE
    /\ pc' = [pc EXCEPT ![f] = "d_ret"]
    /\ running' = NoFlow
    /\ UNCHANGED <<config, offlineQueue, store>>
    /\ UNCHANGED <<op, wuser, wdata, wexisting, werr, ret, batch, idx, dlog, dstore>>
    /\ UNCHANGED <<hvars, mvars, pvars>>

\* initializeApp(...); this.db = getFirestore(); this.initialized = true;
\* await this.drainOfflineQueue();
InitializeApp(f) ==
    /\ running = f
    /\ pc[f] = "i_app"
    /\ apps = 0
    /\ apps' = 1
    /\ db' = TRUE
    /\ initialized' = TRUE
    /\ pc' = [pc EXCEPT ![f] = "d_enter"]
    /\ UNCHANGED <<config, offlineQueue, store, running>>
    /\ UNCHANGED <<op, wuser, wdata, wexisting, werr, ret, batch, idx, dlog, dstore>>
    /\ UNCHANGED <<hvars, mvars, pvars>>

\* cert()/initializeApp() throws (bad credentials, or a default app already
\* exists): catch -> return false.
InitializeThrows(f) ==
    /\ running = f
    /\ pc[f] = "i_app"
    /\ pc' = [pc EXCEPT ![f] = "idle"]
    /\ op' = [op EXCEPT ![f] = "none"]
    /\ running' = NoFlow
    /\ UNCHANGED <<initialized, db, apps, config, offlineQueue, store>>
    /\ UNCHANGED <<wuser, wdata, wexisting, werr, ret, batch, idx, dlog, dstore>>
    /\ UNCHANGED <<hvars, mvars, pvars>>

\* The await of the drain resumes: return true (configure returns the same).
InitializeReturn(f) ==
    /\ running = NoFlow
    /\ pc[f] = "d_ret"
    /\ op[f] \in {"initialize", "configure"}
    /\ pc' = [pc EXCEPT ![f] = "idle"]
    /\ op' = [op EXCEPT ![f] = "none"]
    /\ ClearDrain(f)
    /\ UNCHANGED gvars
    /\ UNCHANGED <<wuser, wdata, wexisting, werr, ret>>
    /\ UNCHANGED <<hvars, mvars, pvars>>

----------------------------------------------------------------------------
(* configure *)

\* JSON.parse and the field check; await this.context.secrets.store(...).
\* An invalid service account throws: catch -> return false.
Configure(f, valid) ==
    /\ running = NoFlow
    /\ pc[f] = "idle"
    /\ IF valid
       THEN /\ pc' = [pc EXCEPT ![f] = "c_store"]
            /\ op' = [op EXCEPT ![f] = "configure"]
       ELSE UNCHANGED <<pc, op>>
    /\ UNCHANGED gvars
    /\ UNCHANGED <<wuser, wdata, wexisting, werr, ret, batch, idx, dlog, dstore>>
    /\ UNCHANGED <<hvars, mvars, pvars>>

\* secrets.store resolves; this.initialized = false; return await this.initialize();
\* initialize finds initialized false and awaits getStoredConfig.
ConfigureStored(f) ==
    /\ running = NoFlow
    /\ pc[f] = "c_store"
    /\ config' = TRUE
    /\ initialized' = FALSE
    /\ pc' = [pc EXCEPT ![f] = "i_config"]
    /\ UNCHANGED <<db, apps, offlineQueue, store, running>>
    /\ UNCHANGED <<op, wuser, wdata, wexisting, werr, ret, batch, idx, dlog, dstore>>
    /\ UNCHANGED <<hvars, mvars, pvars>>

----------------------------------------------------------------------------
(* dispose *)

\* if (this.initialized && admin.apps.length > 0) { await admin.app().delete(); ... }
\* delete() takes the app out of the registry at once, then resolves.
DisposeTeardown(f) ==
    IF initialized /\ apps > 0
    THEN /\ apps' = 0
         /\ pc' = [pc EXCEPT ![f] = "x_delete"]
         /\ op' = [op EXCEPT ![f] = "dispose"]
    ELSE /\ pc' = [pc EXCEPT ![f] = "idle"]
         /\ op' = [op EXCEPT ![f] = "none"]
         /\ UNCHANGED apps

\* Variant: dispose releases the connection without the final drain.
DisposeNoDrain(f) ==
    /\ running = NoFlow
    /\ pc[f] = "idle"
    /\ DisposeTeardown(f)
    /\ UNCHANGED <<initialized, db, config, offlineQueue, store, running>>
    /\ UNCHANGED <<wuser, wdata, wexisting, werr, ret, batch, idx, dlog, dstore>>
    /\ UNCHANGED <<hvars, mvars, pvars>>

\* if (this.offlineQueue.length > 0) await this.drainOfflineQueue();
Dispose(f) ==
    /\ running = NoFlow
    /\ pc[f] = "idle"
    /\ IF Len(offlineQueue) > 0
       THEN /\ pc' = [pc EXCEPT ![f] = "d_enter"]
            /\ op' = [op EXCEPT ![f] = "dispose"]
            /\ running' = f
            /\ UNCHANGED apps
       ELSE /\ DisposeTeardown(f)
            /\ UNCHANGED running
    /\ UNCHANGED <<initialized, db, config, offlineQueue, store>>
    /\ UNCHANGED <<wuser, wdata, wexisting, werr, ret, batch, idx, dlog, dstore>>
    /\ UNCHANGED <<hvars, mvars, pvars>>

\* The await of the drain resumes.
DisposeDrained(f) ==
    /\ running = NoFlow
    /\ pc[f] = "d_ret"
    /\ op[f] = "dispose"
    /\ DisposeTeardown(f)
    /\ ClearDrain(f)
    /\ UNCHANGED <<initialized, db, config, offlineQueue, store, running>>
    /\ UNCHANGED <<wuser, wdata, wexisting, werr, ret>>
    /\ UNCHANGED <<hvars, mvars, pvars>>

\* admin.app().delete() resolves; this.initialized = false;
DisposeDeleted(f) ==
    /\ running = NoFlow
    /\ pc[f] = "x_delete"
    /\ initialized' = FALSE
    /\ pc' = [pc EXCEPT ![f] = "idle"]
    /\ op' = [op EXCEPT ![f] = "none"]
    /\ UNCHANGED <<db, apps, config, offlineQueue, store, running>>
    /\ UNCHANGED <<wuser, wdata, wexisting, werr, ret, batch, idx, dlog, dstore>>
    /\ UNCHANGED <<hvars, mvars, pvars>>

----------------------------------------------------------------------------
(* Specifications *)

\* A public method is called on the manager.
Call(f, deltas, max) ==
    \/ \E u \in Users, d \in deltas : Submit(f, u, d, max)
    \/ Initialize(f)
    \/ \E valid \in BOOLEAN : Configure(f, valid)
    \/ Dispose(f)

\* A flow goes on from where it stands; errors are drawn from msgs.
Step(f, msgs) ==
    \/ WriteNotReady(f)
    \/ WriteIssueGet(f)
    \/ WriteGetOk(f)
    \/ WriteSetOk(f)
    \/ \E e \in msgs : WriteGetFail(f, e)
    \/ \E e \in msgs : WriteSetFail(f, e)
    \/ SubmitReturn(f)
    \/ DrainEmpty(f)
    \/ DrainTake(f)
    \/ DrainNext(f)
    \/ DrainDone(f)
    \/ InitializeConfig(f)
    \/ InitializeDeleted(f)
    \/ InitializeApp(f)
    \/ InitializeThrows(f)
    \/ InitializeReturn(f)
    \/ ConfigureStored(f)
    \/ DisposeDrained(f)
    \/ DisposeDeleted(f)

\* Any interleaving of the flows at their awaits.
Next == \E f \in Flows : Call(f, OverlapDeltas, MaxOverlapSubmits) \/ Step(f, OverlapMessages)

Spec == Init /\ [][Next]_vars

\* The callers serialize: a method is called only when no call is in flight,
\* so one flow carries every call.
SerialFlows == {"f1"}

NextSerial == \E f \in SerialFlows : (AllIdle /\ Call(f, Deltas, MaxSubmits)) \/ Step(f, Messages)

SpecSerial == Init /\ [][NextSerial]_vars

\* Serialized callers, and every remote failure is one the code classifies
\* as a network problem.
TransientMessages == {e \in Messages : looksLikeNetworkError(e)}

NextSerialTransient ==
    \E f \in SerialFlows : (AllIdle /\ Call(f, Deltas, MaxSubmits)) \/ Step(f, TransientMessages)

SpecSerialTransient == Init /\ [][NextSerialTransient]_vars

\* writeDayData calls that overlap each other (the tracker flushes again while
\* an earlier flush is still awaiting the backend); the lifecycle methods are
\* called only while no other call is in flight.
OnlyWritesInFlight == \A g \in Flows : op[g] \in {"none", "submit"}

NextOverlapWrites ==
    \E f \in Flows :
        \/ (AllIdle /\ Call(f, OverlapDeltas, MaxOverlapSubmits))
        \/ (OnlyWritesInFlight /\
               \E u \in Users, d \in OverlapDeltas : Submit(f, u, d, MaxOverlapSubmits))
        \/ Step(f, OverlapMessages)

SpecOverlapWrites == Init /\ [][NextOverlapWrites]_vars

\* Lifecycle calls that overlap each other (extension.ts calls dispose()
\* without awaiting an initialize() that is still draining); writeDayData is
\* called only while no other call is in flight, and a remote call that
\* fails fails with a timeout.
NoWriteInFlight == \A g \in Flows : op[g] # "submit"

NextOverlapDrains ==
    \/ \E f \in SerialFlows : AllIdle /\ Call(f, OverlapDeltas, MaxOverlapSubmits)
    \/ \E f \in Flows :
        \/ (NoWriteInFlight /\ (Initialize(f) \/ Dispose(f)))
        \/ Step(f, {MsgTimedOut})

SpecOverlapDrains == Init /\ [][NextOverlapDrains]_vars

----------------------------------------------------------------------------
(* Platform: POST /api/track *)

\* The token the userId of a body is registered with (none: NoToken).
Registered(body) ==
    IF body # BadJson /\ typeof(body.userId) = "string"
    THEN users[body.userId.value] ELSE NoToken

Respond(h, status, header, body) ==
    /\ resp' = [status |-> status, header |-> header, body |-> body,
                bound |-> IF hpc[h] = "idle" THEN Registered(body) ELSE hbound[h]]
    /\ hbound' = [hbound EXCEPT ![h] = NoToken]
    /\ hpc' = [hpc EXCEPT ![h] = "idle"]
    /\ htoken' = [htoken EXCEPT ![h] = NoToken]
    /\ hbody' = [hbody EXCEPT ![h] = NoBody]
    /\ hexisting' = [hexisting EXCEPT ![h] = Absent]

\* The (userId, date) key of the validated body a handler works on.
BodyKey(body) == <<body.userId.value, body.date.value>>

\* The header passes lines 24-41.
headerAccepted(header) ==
    /\ header # NoHeader
    /\ startsWith(header, BearerPrefix)
    /\ splitSecond(header) # <<>>
    /\ Len(splitSecond(header)) >= MinTokenLength

\* A request arrives with its header and body: the Authorization header is
\* checked, then the handler awaits request.json().
Post(h, header, body) ==
    /\ resp = NoResp
    /\ hpc[h] = "idle"
    /\ IF ~headerAccepted(header)
       THEN /\ Respond(h, 401, header, body)
            /\ UNCHANGED posts
       ELSE /\ (body # BadJson /\ validate(body) = "ok") => posts < MaxPosts
            /\ posts' = IF body # BadJson /\ validate(body) = "ok"
                        THEN posts + 1 ELSE posts
            /\ htoken' = [htoken EXCEPT ![h] = splitSecond(header)]
            /\ hbody' = [hbody EXCEPT ![h] = body]
            /\ hbound' = [hbound EXCEPT ![h] = Registered(body)]
            /\ hpc' = [hpc EXCEPT ![h] = "h_json"]
            /\ UNCHANGED <<hexisting, resp>>
    /\ UNCHANGED <<users, tracking, writers>>
    /\ UNCHANGED <<gvars, fvars, hvars, mvars>>

\* request.json() settles; the fields are validated (lines 56-105); then the
\* handler awaits connectToDatabase().
PostBody(h) ==
    /\ resp = NoResp
    /\ hpc[h] = "h_json"
    /\ IF hbody[h] = BadJson
       THEN Respond(h, 400, HeaderBearer(htoken[h]), hbody[h])
       ELSE IF validate(hbody[h]) # "ok"
       THEN Respond(h, 400, HeaderBearer(htoken[h]), hbody[h])
       ELSE /\ hpc' = [hpc EXCEPT ![h] = "h_connect"]
            /\ UNCHANGED <<htoken, hbody, hexisting, hbound, resp>>
    /\ UNCHANGED <<users, tracking, posts, writers>>
    /\ UNCHANGED <<gvars, fvars, hvars, mvars>>

\* connectToDatabase() resolves; User.findOne({ userId, token }) is issued.
Connected(h) ==
    /\ resp = NoResp
    /\ hpc[h] = "h_connect"
    /\ hpc' = [hpc EXCEPT ![h] = "h_find1"]
    /\ UNCHANGED <<users, tracking, htoken, hbody, hexisting, hbound, posts, resp, writers>>
    /\ UNCHANGED <<gvars, fvars, hvars, mvars>>

\* connectToDatabase() rejects: the outer catch answers 500.
ConnectFails(h) ==
    /\ resp = NoResp
    /\ hpc[h] = "h_connect"
    /\ Respond(h, 500, HeaderBearer(htoken[h]), hbody[h])
    /\ UNCHANGED <<users, tracking, posts, writers>>
    /\ UNCHANGED <<gvars, fvars, hvars, mvars>>

\* User.findOne({ userId, token }) resolves: with a user the merge starts,
\* without one User.findOne({ userId }) is issued.
FindUserToken(h) ==
    /\ resp = NoResp
    /\ hpc[h] = "h_find1"
    /\ hpc' = [hpc EXCEPT ![h] =
                  IF users[hbody[h].userId.value] = htoken[h]
                  THEN "h_mfind" ELSE "h_find2"]
    /\ UNCHANGED <<users, tracking, htoken, hbody, hexisting, hbound, posts, resp, writers>>
    /\ UNCHANGED <<gvars, fvars, hvars, mvars>>

\* Variant: an existing user is not answered 403; the merge starts.
FindUserAdmits(h) ==
    /\ resp = NoResp
    /\ hpc[h] = "h_find2"
    /\ hpc' = [hpc EXCEPT ![h] =
                  IF users[hbody[h].userId.value] # NoToken
                  THEN "h_mfind" ELSE "h_create"]
    /\ UNCHANGED <<users, tracking, htoken, hbody, hexisting, hbound, posts, resp, writers>>
    /\ UNCHANGED <<gvars, fvars, hvars, mvars>>

\* User.findOne({ userId }) resolves: an existing user means a wrong token,
\* 403; otherwise User.create({ userId, token }) is issued.
FindUser(h) ==
    /\ resp = NoResp
    /\ hpc[h] = "h_find2"
    /\ IF users[hbody[h].userId.value] # NoToken
       THEN Respond(h, 403, HeaderBearer(htoken[h]), hbody[h])
       ELSE /\ hpc' = [hpc EXCEPT ![h] = "h_create"]
            /\ UNCHANGED <<htoken, hbody, hexisting, hbound, resp>>
    /\ UNCHANGED <<users, tracking, posts, writers>>
    /\ UNCHANGED <<gvars, fvars, hvars, mvars>>

\* User.create settles: userId and token are unique, a duplicate of either
\* throws error 11000 and the outer catch answers 409; otherwise the user is
\* registered and the merge starts with this.findOne({ userId, date }).
CreateUser(h) ==
    /\ resp = NoResp
    /\ hpc[h] = "h_create"
    /\ IF \/ users[hbody[h].userId.value] # NoToken
          \/ \E u \in PUsers : users[u] = htoken[h]
       THEN /\ Respond(h, 409, HeaderBearer(htoken[h]), hbody[h])
            /\ UNCHANGED users
       ELSE /\ users' = [users EXCEPT ![hbody[h].userId.value] = htoken[h]]
            /\ hpc' = [hpc EXCEPT ![h] = "h_mfind"]
            /\ UNCHANGED <<htoken, hbody, hexisting, hbound, resp>>
    /\ UNCHANGED <<tracking, posts, writers>>
    /\ UNCHANGED <<gvars, fvars, hvars, mvars>>

\* const existing = await this.findOne({ userId, date });
MergeFind(h) ==
    /\ resp = NoResp
    /\ hpc[h] = "h_mfind"
    /\ hexisting' = [hexisting EXCEPT ![h] = tracking[BodyKey(hbody[h])]]
    /\ hpc' = [hpc EXCEPT ![h] = "h_msave"]
    /\ UNCHANGED <<users, tracking, htoken, hbody, hbound, posts, resp, writers>>
    /\ UNCHANGED <<gvars, fvars, hvars, mvars>>

\* existing.save() or this.create(...) settles and the handler answers 200;
\* create throws error 11000 when the (userId, date) document exists by now.
MergeSave(h) ==
    /\ resp = NoResp
    /\ hpc[h] = "h_msave"
    /\ LET k == BodyKey(hbody[h])
           totalSeconds == hbody[h].totalSeconds.value
           languages == Seconds(hbody[h].languages)
       IN IF hexisting[h].exists
          THEN /\ tracking' = [tracking EXCEPT ![k] =
                                  mergeTrackingData(hexisting[h], totalSeconds, languages)]
               /\ writers' = [writers EXCEPT ![k] = @ \cup {htoken[h]}]
               /\ Respond(h, 200, HeaderBearer(htoken[h]), hbody[h])
          ELSE IF tracking[k].exists
          THEN /\ Respond(h, 409, HeaderBearer(htoken[h]), hbody[h])
               /\ UNCHANGED <<tracking, writers>>
          ELSE /\ tracking' = [tracking EXCEPT ![k] = createTracking(totalSeconds, languages)]
               /\ writers' = [writers EXCEPT ![k] = @ \cup {htoken[h]}]
               /\ Respond(h, 200, HeaderBearer(htoken[h]), hbody[h])
    /\ UNCHANGED <<users, posts>>
    /\ UNCHANGED <<gvars, fvars, hvars, mvars>>

\* The response built by the handler has been returned to the client.
Deliver ==
    /\ resp # NoResp
    /\ resp' = NoResp
    /\ UNCHANGED <<users, tracking, hpc, htoken, hbody, hexisting, hbound, posts, writers>>
    /\ UNCHANGED <<gvars, fvars, hvars, mvars>>

\* A handler builds its response and returns it in one synchronous section
\* (resp = NoResp in every handler step: no handler runs in between).
NextIngress ==
    \/ Deliver
    \/ \E h \in Handlers :
         \/ \E header \in Headers, body \in Bodies : Post(h, header, body)
         \/ PostBody(h)
         \/ Connected(h)
         \/ ConnectFails(h)
         \/ FindUserToken(h)
         \/ FindUser(h)
         \/ CreateUser(h)
         \/ MergeFind(h)
         \/ MergeSave(h)

IngressInit == Init /\ config = FALSE

SpecIngress == IngressInit /\ [][NextIngress]_vars

----------------------------------------------------------------------------
(* The merge engine taken alone: two deltas written one after the other, and
   their field-wise sum written at once *)

LangMaps == UNION {[S -> 0..MaxSecs] : S \in SUBSET Langs}
MergeRecords ==
    {[date |-> d, totalSeconds |-> t, languages |-> lg] :
        d \in Dates, t \in 0..MaxSecs, lg \in LangMaps}

DeltaSum(d1, d2) ==
    [date |-> d1.date,
     totalSeconds |-> d1.totalSeconds + d2.totalSeconds,
     languages |-> [l \in (DOMAIN d1.languages) \cup (DOMAIN d2.languages) |->
        (IF l \in DOMAIN d1.languages THEN d1.languages[l] ELSE 0)
        + (IF l \in DOMAIN d2.languages THEN d2.languages[l] ELSE 0)]]

MergeInit ==
    /\ ManagerInit
    /\ config = FALSE
    /\ mE \in {Absent} \cup {Doc(r) : r \in MergeRecords}
    /\ mD1 \in MergeRecords
    /\ mD2 \in {r \in MergeRecords : r.date = mD1.date}
    /\ mOut = <<>>
    /\ PlatformInit

MergeApply ==
    /\ mOut = <<>>
    /\ mOut' = [seq |-> WriteRecord(WriteRecord(mE, mD1), mD2),
                one |-> WriteRecord(mE, DeltaSum(mD1, mD2))]
    /\ UNCHANGED <<mE, mD1, mD2>>
    /\ UNCHANGED <<gvars, fvars, hvars, pvars>>

SpecMerge == MergeInit /\ [][MergeApply]_vars

----------------------------------------------------------------------------
(* Measures used by the properties *)

RECURSIVE SeqSum(_)
SeqSum(sq) == IF sq = <<>> THEN 0 ELSE Head(sq) + SeqSum(Tail(sq))

KeyOf(userId, data) == <<userId, data.date>>
LangOf(data, l) == IF l \in DOMAIN data.languages THEN data.languages[l] ELSE 0

StoredTotal(k) == IF store[k].exists THEN store[k].totalSeconds ELSE 0
StoredLang(k, l) == IF store[k].exists THEN LangOf(store[k], l) ELSE 0

QueuedTotal(k) ==
    SeqSum([i \in 1..Len(offlineQueue) |->
        IF KeyOf(offlineQueue[i].userId, offlineQueue[i].data) = k
        THEN offlineQueue[i].data.totalSeconds ELSE 0])
QueuedLang(k, l) ==
    SeqSum([i \in 1..Len(offlineQueue) |->
        IF KeyOf(offlineQueue[i].userId, offlineQueue[i].data) = k
        THEN LangOf(offlineQueue[i].data, l) ELSE 0])
QueuedCount(s) ==
    Cardinality({i \in 1..Len(offlineQueue) :
        <<offlineQueue[i].userId, offlineQueue[i].data>> = s})

SubsOf(k) == {s \in Subs : KeyOf(s[1], s[2]) = k}
SubmittedTotal(k) ==
    SumOver([s \in Subs |-> submitted[s] * s[2].totalSeconds], SubsOf(k))
SubmittedLang(k, l) ==
    SumOver([s \in Subs |-> submitted[s] * LangOf(s[2], l)], SubsOf(k))

\* Calls of s that have started and not yet settled, and batch items of s
\* that a running drain has not yet reached.
InFlightCount(s) ==
    Cardinality({f \in Flows :
        pc[f] \in {"w_enter", "w_get", "w_set"} /\ <<wuser[f], wdata[f]>> = s})
    + SumOver([f \in Flows |->
        Cardinality({i \in (idx[f] + 1)..Len(batch[f]) :
            pc[f] # "d_ret" /\ <<batch[f][i].userId, batch[f][i].data>> = s})], Flows)

\* The record that holds doc (possibly absent) plus the seconds of data.
Plus(doc, data) ==
    [exists |-> TRUE,
     date |-> data.date,
     totalSeconds |-> (IF doc.exists THEN doc.totalSeconds ELSE 0) + data.totalSeconds,
     languages |->
        [l \in {x \in Langs : (doc.exists /\ x \in DOMAIN doc.languages)
                              \/ x \in DOMAIN data.languages} |->
            (IF doc.exists THEN LangOf(doc, l) ELSE 0) + LangOf(data, l)]]

\* The store st after the first n items have each been added once.
RECURSIVE PlusAll(_, _, _)
PlusAll(st, items, n) ==
    IF n = 0 THEN st
    ELSE LET prev == PlusAll(st, items, n - 1)
             k == KeyOf(items[n].userId, items[n].data)
         IN [prev EXCEPT ![k] = Plus(prev[k], items[n].data)]

\* This step takes flow f into the catch block of writeDayData.
CaughtBy(f) == pc[f] \in {"w_get", "w_set"} /\ werr'[f] # NoError

----------------------------------------------------------------------------
(* C1..C10 *)

\* C1: with serialized calls and only not-ready or transient failures, whenever
\* no call is in flight, for every (userId, date) key the stored totalSeconds
\* plus the queued totalSeconds equals the submitted totalSeconds, likewise per
\* language, and every submitted delta is either merged once or queued once.
C1_NoTimeLostOrDoubled ==
    AllIdle =>
        /\ \A k \in Keys :
            /\ StoredTotal(k) + QueuedTotal(k) = SubmittedTotal(k)
            /\ \A l \in Langs : StoredLang(k, l) + QueuedLang(k, l) = SubmittedLang(k, l)
        /\ \A s \in Subs : applied[s] + QueuedCount(s) = submitted[s]

C1_Witness ==
    /\ AllIdle
    /\ initialized
    /\ \E k \in Keys :
        /\ store[k].exists
        /\ QueuedTotal(k) > 0
        /\ SubmittedTotal(k) > StoredTotal(k)

\* C2: when the manager is not initialized (or has no db handle), writeDayData
\* appends exactly its delta to the offline queue, resolves to false, issues no
\* remote read or write and leaves the store unchanged.
C2_NotReadyQueues ==
    [][\A f \in Flows :
        (pc[f] = "w_enter" /\ (~initialized \/ ~db)) =>
            /\ offlineQueue' = Append(offlineQueue,
                    [userId |-> wuser[f], date |-> wdata[f].date, data |-> wdata[f]])
            /\ ret'[f] = FALSE
            /\ pc'[f] = "w_ret"
            /\ wexisting'[f] = Absent
            /\ store' = store]_vars

C2_Witness ==
    \E f \in Flows :
        /\ pc[f] = "w_ret"
        /\ ~initialized
        /\ ~ret[f]
        /\ werr[f] = NoError
        /\ offlineQueue # <<>>
        /\ offlineQueue[Len(offlineQueue)].data = wdata[f]

\* C3: when the read or the write of a call fails with a transient error (one
\* the classification takes for a network problem, "ETIMEDOUT" among them), the
\* call resolves to false, the queue grows by exactly one item, that item holds
\* the original delta, and the store is unchanged.
C3_TransientQueues ==
    [][\A f \in Flows :
        (CaughtBy(f) /\ (looksLikeNetworkError(werr'[f]) \/ includes(werr'[f], MsgTimedOut))) =>
            /\ ret'[f] = FALSE
            /\ pc'[f] = "w_ret"
            /\ Len(offlineQueue') = Len(offlineQueue) + 1
            /\ offlineQueue' = Append(offlineQueue,
                    [userId |-> wuser[f], date |-> wdata[f].date, data |-> wdata[f]])
            /\ store' = store]_vars

C3_Witness ==
    \E f \in Flows :
        /\ pc[f] = "w_ret"
        /\ werr[f] = MsgTimedOut
        /\ wexisting[f].exists
        /\ offlineQueue # <<>>
        /\ offlineQueue[Len(offlineQueue)].data = wdata[f]
        /\ store[KeyOf(wuser[f], wdata[f])] = wexisting[f]

C5_SnapshotAndClear ==
    \A f \in Flows :
        (pc[f] = "d_ret" /\ Len(batch[f]) = 2 /\ dlog[f] = <<"success", "transient">>) =>
            /\ offlineQueue = <<batch[f][2]>>
            /\ store = PlusAll(dstore[f], batch[f], 1)

C5_Witness ==
    \E f \in Flows :
        /\ pc[f] = "d_ret"
        /\ Len(batch[f]) = 2
        /\ dlog[f] = <<"success", "transient">>
        /\ batch[f][1].data.date = batch[f][2].data.date
        /\ Len(offlineQueue) = 1

\* C6: a successful write on a key that has no stored record stores the
\* incoming delta exactly: same date, totalSeconds and languages.
C6_CreateStoresDelta ==
    [][\A f \in Flows :
        (/\ pc[f] = "w_set" /\ pc'[f] = "w_ret" /\ ret'[f]
         /\ ~store[KeyOf(wuser[f], wdata[f])].exists) =>
            store'[KeyOf(wuser[f], wdata[f])] =
                [exists |-> TRUE,
                 date |-> wdata[f].date,
                 totalSeconds |-> wdata[f].totalSeconds,
                 languages |-> wdata[f].languages]]_vars

C6_Witness ==
    \E f \in Flows :
        /\ pc[f] = "w_ret"
        /\ ret[f]
        /\ ~wexisting[f].exists
        /\ wdata[f] = DeltaB
        /\ store[KeyOf(wuser[f], wdata[f])].languages = Lang2(10, 20)

\* C7: a successful write on a key that holds record E replaces it by the
\* record with totalSeconds E + D, languages[l] = (E[l] or 0) + (D[l] or 0) over
\* the languages of either, and E's date; {120, go:120} plus
\* {30, go:10, rust:20} gives {150, go:130, rust:20}.
C7_MergeAddsFields ==
    [][\A f \in Flows :
        LET k == KeyOf(wuser[f], wdata[f])
            E == store[k]
            D == wdata[f]
        IN (pc[f] = "w_set" /\ pc'[f] = "w_ret" /\ ret'[f] /\ E.exists) =>
            /\ store'[k] =
                [exists |-> TRUE,
                 date |-> E.date,
                 totalSeconds |-> E.totalSeconds + D.totalSeconds,
                 languages |-> [l \in (DOMAIN E.languages) \cup (DOMAIN D.languages) |->
                                    LangOf(E, l) + LangOf(D, l)]]
            /\ (E.totalSeconds = 120 /\ E.languages = Lang1("go", 120) /\ D = DeltaB) =>
                /\ store'[k].totalSeconds = 150
                /\ store'[k].languages = Lang2(130, 20)]_vars

C7_Witness ==
    \E f \in Flows :
        /\ pc[f] = "w_ret"
        /\ ret[f]
        /\ wexisting[f] = Doc(DeltaA)
        /\ wdata[f] = DeltaB
        /\ store[KeyOf(wuser[f], wdata[f])].totalSeconds = 150

\* C8: merge additivity: writing D1 and then D2 on a record E (or on no
\* record) stores the same record as writing their field-wise sum at once.
C8_MergeAdditive ==
    mOut # <<>> => mOut.seq = mOut.one

C8_Witness ==
    /\ mOut # <<>>
    /\ mE.exists
    /\ mOut.seq.totalSeconds = mE.totalSeconds + 2
    /\ \E l \in Langs :
        /\ l \notin DOMAIN mE.languages
        /\ l \in DOMAIN mD1.languages
        /\ l \in DOMAIN mD2.languages
        /\ mOut.seq.languages[l] = 2

\* C9: two successful writes of the same delta content on one key, and nothing
\* else written on that key, leave a record whose totalSeconds and languages
\* are twice the delta's.
C9_EqualDeltasDouble ==
    \A s \in Subs :
        LET k == KeyOf(s[1], s[2]) IN
        (applied[s] = 2 /\ \A o \in SubsOf(k) \ {s} : applied[o] = 0) =>
            /\ store[k].exists
            /\ store[k].totalSeconds = 2 * s[2].totalSeconds
            /\ DOMAIN store[k].languages = DOMAIN s[2].languages
            /\ \A l \in DOMAIN s[2].languages : store[k].languages[l] = 2 * s[2].languages[l]

C9_Witness ==
    /\ applied[<<"u1", DeltaB>>] = 2
    /\ applied[<<"u1", DeltaA>>] = 0
    /\ store[<<"u1", "2024-01-01">>].totalSeconds = 60
    /\ AllIdle

\* C10: when a drain of n queued items returns after every write succeeded,
\* the queue is empty and the store is the store of the drain's start with
\* every item of the batch added exactly once.
C10_FullDrainEmpties ==
    \A f \in Flows :
        (/\ pc[f] = "d_ret" /\ Len(batch[f]) > 0
         /\ \A i \in 1..Len(batch[f]) : dlog[f][i] = "success") =>
            /\ offlineQueue = <<>>
            /\ store = PlusAll(dstore[f], batch[f], Len(batch[f]))

C10_Witness ==
    \E f \in Flows :
        /\ pc[f] = "d_ret"
        /\ Len(batch[f]) = 3
        /\ \A i \in 1..3 : dlog[f][i] = "success"
        /\ offlineQueue = <<>>

----------------------------------------------------------------------------
(* C11..C20 *)

\* Flow f is inside the writeDayData call of a drain's loop.
InDrainWrite(f) ==
    op[f] # "submit" /\ pc[f] \in {"w_enter", "w_get", "w_set", "w_ret"}

\* The one sub-operation of the drain of flow f is the attempt for item
\* idx[f], and the attempts for the idx[f] - 1 items before it have completed.
OneAttemptInOrder(f) ==
    /\ idx[f] \in 1..Len(batch[f])
    /\ Len(dlog[f]) = idx[f] - 1
    /\ wuser[f] = batch[f][idx[f]].userId
    /\ wdata[f] = batch[f][idx[f]].data

\* C11: a drain delivers its batch one item at a time in queue order: the
\* batch is the queue as it stood when the drain started, the item in flight
\* is always the next one after the items whose attempts have completed, the
\* attempt for an item starts only from the completed attempt of the item
\* before it (or from the start of the drain, for the first), and the drain
\* returns only when every item of the batch has been attempted.
C11_DrainSequentialFifo ==
    [][\A f \in Flows :
        /\ (pc[f] = "d_enter" /\ pc'[f] # "d_enter") => batch'[f] = offlineQueue
        /\ InDrainWrite(f)' => OneAttemptInOrder(f)'
        /\ (InDrainWrite(f)' /\ idx'[f] # idx[f]) =>
              /\ pc'[f] = "w_enter"
              /\ \/ pc[f] = "d_enter" /\ idx'[f] = 1
                 \/ pc[f] = "w_ret" /\ idx'[f] = idx[f] + 1
        /\ (pc'[f] = "d_ret" /\ pc[f] # "d_ret") =>
              /\ Len(dlog'[f]) = Len(batch'[f])
              /\ \/ pc[f] = "w_ret"
                 \/ pc[f] = "d_enter" /\ offlineQueue = <<>>
      ]_vars

C11_Witness ==
    \E f \in Flows :
        /\ InDrainWrite(f)
        /\ pc[f] = "w_set"
        /\ Len(batch[f]) = 3
        /\ idx[f] = 2
        /\ batch[f][1] # batch[f][2]
        /\ dlog[f] = <<"transient">>

\* C12: when initialize() (called directly or by configure()) establishes the
\* connection, it goes on to the drain without yielding, the drain takes the
\* whole queue of that moment as its batch, and initialize() returns only
\* after a write has been attempted for every item of that batch.
C12_InitializeDrainsQueue ==
    [][\A f \in Flows :
        /\ (pc[f] = "i_app" /\ ~initialized /\ initialized') =>
              /\ pc'[f] = "d_enter"
              /\ running' = f
              /\ offlineQueue' = offlineQueue
        /\ (pc[f] = "d_enter" /\ op[f] \in {"initialize", "configure"}) =>
              /\ running = f
              /\ initialized
              /\ pc'[f] # "d_enter" =>
                    /\ batch'[f] = offlineQueue
                    /\ offlineQueue' = <<>>
        /\ (pc[f] = "d_ret" /\ op[f] \in {"initialize", "configure"} /\ pc'[f] = "idle") =>
              /\ Len(dlog[f]) = Len(batch[f])
              /\ \A i \in 1..Len(batch[f]) :
                    dlog[f][i] \in {"success", "transient", "permanent"}
      ]_vars

C12_Witness ==
    \E f \in Flows :
        /\ pc[f] = "d_ret"
        /\ op[f] = "initialize"
        /\ initialized
        /\ Len(batch[f]) = 2
        /\ dlog[f] = <<"success", "permanent">>

\* C13: dispose() first drains a non-empty queue and releases the backend
\* connection only when that drain has returned with every batch item
\* attempted; a write reaches the backend only while the connection is held,
\* so none is attempted after the release; and when dispose() returns the
\* manager is not initialized.
C13_DisposeDrainsThenReleases ==
    [][\A f \in Flows :
        /\ (pc[f] = "idle" /\ op'[f] = "dispose" /\ offlineQueue # <<>>) =>
              /\ pc'[f] = "d_enter"
              /\ apps' = apps
              /\ initialized' = initialized
        /\ (op'[f] = "dispose" /\ apps > 0 /\ apps' = 0) =>
              /\ pc'[f] = "x_delete"
              /\ \/ pc[f] = "idle" /\ offlineQueue = <<>>
                 \/ pc[f] = "d_ret" /\ Len(dlog[f]) = Len(batch[f])
              /\ \A g \in Flows : ~InDrainWrite(g)
        /\ pc'[f] \in {"w_get", "w_set"} => (apps' > 0 /\ initialized')
        /\ (op[f] = "dispose" /\ pc[f] # "idle" /\ pc'[f] = "idle") => ~initialized'
        /\ (AllIdle' /\ initialized') => apps' > 0
      ]_vars

C13_Witness ==
    \E f \in Flows :
        /\ pc[f] = "x_delete"
        /\ op[f] = "dispose"
        /\ apps = 0
        /\ Len(offlineQueue) = 1
        /\ \E s \in Subs : applied[s] > 0 /\ submitted[s] = 1 /\ QueuedCount(s) = 0

\* C14: an update queued after a network failure is retried the next time
\* writeDayData() succeeds: when a directly called writeDayData returns true,
\* every update still in the offline queue has been attempted again by that
\* call (it is one of the items the call has taken from the queue and tried).
C14_RetriedAfterNextSuccess ==
    [][\A f \in Flows :
        (op[f] = "submit" /\ pc[f] = "w_ret" /\ ret[f] /\ pc'[f] = "idle") =>
            \A i \in 1..Len(offlineQueue) :
                \E j \in 1..Len(dlog[f]) : batch[f][j] = offlineQueue[i]
      ]_vars

\* The items among the first n of a batch whose attempt put them back into
\* the queue (refused as not ready, or failed with a network-class error),
\* in batch order.
RECURSIVE Requeued(_, _, _)
Requeued(items, log, n) ==
    IF n = 0 THEN <<>>
    ELSE IF log[n] \in {"notready", "transient"}
         THEN Append(Requeued(items, log, n - 1), items[n])
         ELSE Requeued(items, log, n - 1)

C16_SuccessIffWritten ==
    [][\A f \in Flows :
        /\ (pc[f] \in {"w_enter", "w_get", "w_set"} /\ pc'[f] # pc[f]) =>
              pc'[f] \in {"w_get", "w_set", "w_ret"}
        /\ CaughtBy(f) =>
              /\ pc'[f] = "w_ret"
              /\ ~ret'[f]
              /\ store' = store
        /\ (pc[f] \in {"w_enter", "w_get", "w_set"} /\ pc'[f] = "w_ret") =>
              (ret'[f] <=>
                  /\ store' # store
                  /\ store' = [store EXCEPT ![KeyOf(wuser[f], wdata[f])] =
                                  WriteRecord(wexisting[f], wdata[f])])
      ]_vars

C16_Witness ==
    \E f \in Flows :
        /\ pc[f] = "w_ret"
        /\ op[f] = "submit"
        /\ ret[f]
        /\ wexisting[f].exists
        /\ store[KeyOf(wuser[f], wdata[f])] = WriteRecord(wexisting[f], wdata[f])
        /\ \E s \in Subs : dropped[s] > 0

\* Flows f and g have both returned true from writeDayData calls for key k
\* and neither caller has resumed yet.
BothSucceeded(f, g, k) ==
    /\ f # g
    /\ pc[f] = "w_ret" /\ pc[g] = "w_ret"
    /\ ret[f] /\ ret[g]
    /\ KeyOf(wuser[f], wdata[f]) = k
    /\ KeyOf(wuser[g], wdata[g]) = k

\* The successful writes the run has made to key k so far.
WritesTo(k) == SumOver(applied, SubsOf(k))

\* C17: two writeDayData calls for one key that both report success: when
\* both read the same record before either wrote, the stored record is that
\* record plus the delta of one call only, the other delta is lost; when the
\* two calls are the only writes to the key and one of them read the record
\* the other had written (the calls were serialized), the stored record holds
\* both deltas.
C17_OverlapLosesUpdate ==
    \A f, g \in Flows : \A k \in Keys :
        BothSucceeded(f, g, k) =>
            /\ wexisting[f] = wexisting[g] =>
                  /\ store[k] \in {Plus(wexisting[f], wdata[f]), Plus(wexisting[g], wdata[g])}
                  /\ store[k] # Plus(Plus(wexisting[f], wdata[f]), wdata[g])
            /\ (WritesTo(k) = 2 /\ wexisting[g].exists) =>
                  /\ wexisting[f] = Absent
                  /\ wexisting[g] = Plus(Absent, wdata[f])
                  /\ store[k] = Plus(Plus(Absent, wdata[f]), wdata[g])

C17_Witness ==
    \E f, g \in Flows : \E k \in Keys :
        /\ BothSucceeded(f, g, k)
        /\ wexisting[f] = Absent /\ wexisting[g] = Absent
        /\ wdata[f] = DeltaA /\ wdata[g] = DeltaB
        /\ applied[<<"u1", DeltaA>>] = 1 /\ applied[<<"u1", DeltaB>>] = 1
        /\ store[k].totalSeconds = 30

\* C18: with serialized submits and drains of deltas whose totalSeconds is
\* not negative, the stored totalSeconds of every key is never negative and
\* no step lowers it, so it is never below its value in any earlier state.
C18_TotalNeverDecreases ==
    [][\A k \in Keys :
        /\ StoredTotal(k) >= 0
        /\ StoredTotal(k)' >= StoredTotal(k)
        /\ store[k].exists => store'[k].exists
      ]_vars

C18_Witness ==
    \E f \in Flows : \E k \in Keys :
        /\ pc[f] = "w_ret"
        /\ ret[f]
        /\ op[f] = "dispose"
        /\ k = KeyOf(wuser[f], wdata[f])
        /\ wexisting[f].exists
        /\ wexisting[f].totalSeconds = 120
        /\ wdata[f].totalSeconds = 30
        /\ StoredTotal(k) = 150

\* The sum of the values of a languages object.
LanguagesSum(doc) == SumOver(doc.languages, DOMAIN doc.languages)

\* C19: the deltas all have totalSeconds equal to the sum of their languages
\* values and the store starts empty; after any serialized submits and drains
\* every stored record has totalSeconds equal to the sum of its languages values.
C19_TotalIsLanguagesSum ==
    /\ \A d \in Deltas : d.totalSeconds = LanguagesSum(d)
    /\ \A k \in Keys :
          store[k].exists => store[k].totalSeconds = LanguagesSum(store[k])

C19_Witness ==
    \E k \in Keys :
        /\ store[k].exists
        /\ store[k].totalSeconds = 180
        /\ store[k].languages = Lang2(140, 40)
        /\ AllIdle
        /\ offlineQueue = <<>>

\* C20: with serialized submits and drains of non-negative deltas, a language
\* key of a stored record is still a key of that record after every step, and
\* its value is not lower than before.
C20_LanguagesAccumulate ==
    [][\A k \in Keys :
        store[k].exists =>
            /\ store'[k].exists
            /\ \A l \in DOMAIN store[k].languages :
                  /\ l \in DOMAIN store'[k].languages
                  /\ store'[k].languages[l] >= store[k].languages[l]
      ]_vars

C20_Witness ==
    \E f \in Flows :
        /\ pc[f] = "w_ret"
        /\ ret[f]
        /\ wdata[f] = DeltaA
        /\ wexisting[f].exists
        /\ wexisting[f].languages = Lang2(10, 20)
        /\ store[KeyOf(wuser[f], wdata[f])].languages = Lang2(130, 20)

----------------------------------------------------------------------------
(* C21..C25 *)

\* This step answers a request (the response is in resp').
Answers == resp = NoResp /\ resp' # NoResp

\* The body of a request has a date that is not YYYY-MM-DD, a totalSeconds
\* that is not a non-negative number, or a languages value that is not a
\* non-negative number.
OffendingBody(body) ==
    /\ body # BadJson
    /\ \/ ~matchesDate(body.date)
       \/ typeof(body.totalSeconds) # "number"
       \/ body.totalSeconds.value < 0
       \/ /\ typeof(body.languages) = "object"
          /\ \E l \in DOMAIN body.languages.value :
                \/ typeof(body.languages.value[l]) # "number"
                \/ body.languages.value[l].value < 0

SocketWording(error) ==
    includes(toLowerCase(error), <<"s","o","c","k","e","t">>)

ClaimedTransient(error) ==
    LET msg == toLowerCase(error) IN
    \/ includes(msg, <<"e","n","o","t","f","o","u","n","d">>)
    \/ includes(msg, <<"e","c","o","n","n","r","e","f","u","s","e","d">>)
    \/ includes(msg, <<"e","t","i","m","e","d","o","u","t">>)
    \/ includes(msg, <<"t","i","m","e","o","u","t">>)
    \/ includes(msg, <<"n","e","t","w","o","r","k">>)
    \/ SocketWording(error)

\* C22: an error caught by writeDayData is classified transient exactly when
\* its lowercased description has the claimed wording, and a call that fails
\* with an error whose description contains "socket", in any letter case,
\* appends its delta to the offline queue.
C22_SocketWordingQueues ==
    [][\A f \in Flows :
        CaughtBy(f) =>
            /\ looksLikeNetworkError(werr'[f]) <=> ClaimedTransient(werr'[f])
            /\ SocketWording(werr'[f]) =>
                  offlineQueue' = Append(offlineQueue,
                      [userId |-> wuser[f], date |-> wdata[f].date, data |-> wdata[f]])
      ]_vars

\* Flow f is inside a drain that took a batch.
Draining(f) ==
    /\ op[f] \in {"initialize", "configure", "dispose"}
    /\ pc[f] \in {"w_enter", "w_get", "w_set", "w_ret"}
    /\ Len(batch[f]) > 0

\* The batch items of s that the drain of f has not yet settled.
PendingIn(f, s) ==
    Cardinality({i \in 1..Len(batch[f]) :
        /\ <<batch[f][i].userId, batch[f][i].data>> = s
        /\ \/ i > idx[f]
           \/ i = idx[f] /\ pc[f] \in {"w_enter", "w_get", "w_set"}})

\* C23: with drains that overlap (initialize() and dispose() in flight
\* together), a drain takes the whole queue as its batch and empties the
\* queue in the same step, so at all times every submitted delta is in
\* exactly one place (stored, queued, dropped, or pending in the batch of
\* one drain): the pending items of two overlapping drains never hold more
\* copies of a delta than were submitted and not yet settled, and no delta
\* is stored more often than it was submitted.
C23_OverlappingDrainsDisjoint ==
    /\ [][\A f \in Flows :
            (pc[f] = "d_enter" /\ pc'[f] = "w_enter") =>
                (batch'[f] = offlineQueue /\ offlineQueue' = <<>>)]_vars
    /\ [](\A s \in Subs :
            /\ applied[s] <= submitted[s]
            /\ applied[s] + QueuedCount(s) + InFlightCount(s) + dropped[s] = submitted[s]
            /\ \A f, g \in Flows :
                  (f # g /\ Draining(f) /\ Draining(g)) =>
                      PendingIn(f, s) + PendingIn(g, s) + QueuedCount(s)
                          <= submitted[s] - applied[s] - dropped[s])

C23_Witness ==
    \E f, g \in Flows :
        /\ f # g
        /\ op[f] = "initialize"
        /\ op[g] = "dispose"
        /\ Draining(f)
        /\ Draining(g)
        /\ pc[g] = "w_set"
        /\ \E i \in 1..Len(batch[f]), j \in 1..Len(batch[g]) :
              /\ i < idx[f]
              /\ batch[f][i] = batch[g][j]
              /\ submitted[<<batch[f][i].userId, batch[f][i].data>>] = 1

\* C24: with serialized calls, a drain that runs while the manager is not
\* initialized issues no remote read or write, and when it returns every
\* item of its batch has taken the not-ready path, the offline queue is the
\* batch again (the same items in the same order) and the store is as it was
\* when the drain began.
C24_NotReadyDrainKeepsQueue ==
    /\ [](\A f \in Flows :
            (~initialized /\ op[f] # "submit" /\ Len(batch[f]) > 0) =>
                pc[f] \notin {"w_get", "w_set"})
    /\ [][\A f \in Flows :
            (~initialized /\ op[f] # "submit" /\ pc[f] = "w_ret" /\ pc'[f] = "d_ret") =>
                /\ offlineQueue' = batch[f]
                /\ Len(dlog'[f]) = Len(batch[f])
                /\ \A i \in 1..Len(dlog'[f]) : dlog'[f][i] = "notready"
                /\ store' = dstore[f]
                /\ \A s \in Subs : dropped'[s] = dropped[s] /\ applied'[s] = applied[s]
      ]_vars

C24_Witness ==
    \E f \in Flows :
        /\ ~initialized
        /\ op[f] = "dispose"
        /\ pc[f] = "d_ret"
        /\ Len(batch[f]) >= 2
        /\ batch[f][1] # batch[f][2]
        /\ offlineQueue = batch[f]
        /\ dlog[f] = [i \in 1..Len(batch[f]) |-> "notready"]

\* The request a response answers came for a userId that was registered
\* when it arrived, and carried a Bearer token other than the registered one.
CarriesOtherToken(r) ==
    /\ r.bound # NoToken
    /\ startsWith(r.header, BearerPrefix)
    /\ splitSecond(r.header) # NoToken
    /\ splitSecond(r.header) # r.bound

\* Every tracking record was written only by requests that carried the
\* token its userId is registered with.
WrittenByOwner == \A k \in PKeys : writers[k] \subseteq {users[k[1]]} \ {NoToken}

\* C25 as stated: a POST for a registered userId that carries another token
\* is answered 403 and changes no tracking record, and every tracking record
\* was written only with the registered token.
C25_OtherTokenAnswered403 ==
    /\ [][(Answers /\ CarriesOtherToken(resp')) =>
             (resp'.status = 403 /\ tracking' = tracking)]_vars
    /\ []WrittenByOwner

\* C25 amended: a POST for a registered userId that carries another token is
\* never accepted and changes no user and no tracking record: its handler
\* never reaches User.create or the merge, and it is answered 401 when the
\* header is not a Bearer header with a token of at least 16 characters,
\* else 400 when the body is not valid, else 500 when the database cannot
\* be reached, else 403; and every tracking record was written only with
\* the token registered for its userId.
C25_TokenBinding ==
    /\ [][(Answers /\ CarriesOtherToken(resp')) =>
             /\ tracking' = tracking
             /\ users' = users
             /\ IF ~headerAccepted(resp'.header) THEN resp'.status = 401
                ELSE IF resp'.body = BadJson \/ validate(resp'.body) # "ok"
                     THEN resp'.status = 400
                ELSE \/ resp'.status = 403
                     \/ resp'.status = 500 /\ \E h \in Handlers : hpc[h] = "h_connect"
      ]_vars
    /\ [](\A h \in Handlers :
            (hbound[h] # NoToken /\ htoken[h] # hbound[h]) =>
                hpc[h] \notin {"h_create", "h_mfind", "h_msave"})
    /\ []WrittenByOwner

C25_Witness ==
    /\ resp.status = 403
    /\ CarriesOtherToken(resp)
    /\ resp.bound = TokenA
    /\ splitSecond(resp.header) = TokenB
    /\ resp.body.userId = Str(UserA)
    /\ users[UserA] = TokenA
    /\ tracking[<<UserA, DateGood>>].exists
    /\ writers[<<UserA, DateGood>>] = {TokenA}

====
